---- MODULE Spec2Model ----
(***************************************************************************)
(* Job-listing API: the job store, the CRUD handlers of routes/jobs.js,   *)
(* the search handler of routes/search.js, the Joi validation middleware  *)
(* and the Mongoose schema of models/Job.js.                              *)
(*                                                                         *)
(* Text values are sequences of one-character strings, so that parseInt,  *)
(* trim, $regex and substring tests are computed character by character.  *)
(* An optional value is <<>> (absent) or <<v>>.  Times are in seconds.     *)
(***************************************************************************)
EXTENDS Integers, Sequences, FiniteSets, TLC

\* ------------------------------------------------------------------ bounds
MaxJobs == 2
MaxViews == 2
MaxClock == 1
NumClients == 2

\* ----------------------------------------------------------- basic values
None == <<>>
Some(v) == <<v>>
Has(o) == o # <<>>
Val(o) == o[1]

Clients == 1..NumClients
JobIds == 1..MaxJobs

Min2(a, b) == IF a <= b THEN a ELSE b

RECURSIVE SeqToSetOf(_)
SeqToSetOf(s) == IF s = <<>> THEN {} ELSE {Head(s)} \cup SeqToSetOf(Tail(s))

\* ------------------------------------------------------------------ text
\* String.prototype.toLowerCase / the "i" option of $regex, per character
Lower(c) ==
  CASE c = "A" -> "a"
    [] c = "B" -> "b"
    [] c = "C" -> "c"
    [] c = "D" -> "d"
    [] OTHER -> c

RECURSIVE TrimLeft(_)
TrimLeft(s) == IF s # <<>> /\ Head(s) = " " THEN TrimLeft(Tail(s)) ELSE s

RECURSIVE TrimRight(_)
TrimRight(s) ==
  IF s # <<>> /\ s[Len(s)] = " " THEN TrimRight(SubSeq(s, 1, Len(s) - 1)) ELSE s

\* String.prototype.trim / Joi .trim() / Mongoose trim: true
Trim(s) == TrimRight(TrimLeft(s))

IsDigit(c) == c \in {"0", "1", "2", "3", "4", "5", "6", "7", "8", "9"}

DigitVal(c) ==
  CASE c = "0" -> 0 [] c = "1" -> 1 [] c = "2" -> 2 [] c = "3" -> 3
    [] c = "4" -> 4 [] c = "5" -> 5 [] c = "6" -> 6 [] c = "7" -> 7
    [] c = "8" -> 8 [] c = "9" -> 9

RECURSIVE DigitsPrefix(_, _)
DigitsPrefix(s, acc) ==
  IF s # <<>> /\ IsDigit(Head(s))
  THEN DigitsPrefix(Tail(s), acc * 10 + DigitVal(Head(s)))
  ELSE acc

\* parseInt(text): skips leading blanks, takes an optional sign and the
\* longest run of digits; NaN (here <<>>) when there is no digit.
NaN == <<>>
IsNaN(n) == n = <<>>
ParseInt(text) ==
  LET t == TrimLeft(text)
      neg == t # <<>> /\ Head(t) = "-"
      u == IF t # <<>> /\ Head(t) \in {"-", "+"} THEN Tail(t) ELSE t
  IN  IF u = <<>> \/ ~IsDigit(Head(u)) THEN NaN
      ELSE Some(IF neg THEN 0 - DigitsPrefix(u, 0) ELSE DigitsPrefix(u, 0))

\* Number(text), the coercion JavaScript applies in "page < totalPages":
\* the whole trimmed text must be a number, the empty text is 0.
ToNumber(text) ==
  LET t == Trim(text)
      u == IF t # <<>> /\ Head(t) \in {"-", "+"} THEN Tail(t) ELSE t
  IN  IF t = <<>> THEN Some(0)
      ELSE IF u # <<>> /\ \A i \in 1..Len(u) : IsDigit(u[i]) THEN ParseInt(t)
      ELSE NaN

\* { $regex: pattern, $options: 'i' } on a stored text: an unanchored,
\* case-insensitive regular expression; "." matches any character.
RegexTest(pattern, text) ==
  \E off \in 0..Len(text) :
    /\ off + Len(pattern) <= Len(text)
    /\ \A k \in 1..Len(pattern) :
         \/ pattern[k] = "."
         \/ Lower(pattern[k]) = Lower(text[off + k])

\* case-insensitive substring containment
Contains(text, part) ==
  \E off \in 0..Len(text) :
    /\ off + Len(part) <= Len(text)
    /\ \A k \in 1..Len(part) : Lower(part[k]) = Lower(text[off + k])

\* lexicographic order of two texts by character code (BSON string order)
CharCode(c) ==
  CASE c = " " -> 32 [] c = "." -> 46
    [] c = "A" -> 65 [] c = "B" -> 66 [] c = "C" -> 67
    [] c = "a" -> 97 [] c = "b" -> 98 [] c = "c" -> 99
    [] OTHER -> 120

RECURSIVE TextLeq(_, _)
TextLeq(a, b) ==
  IF a = <<>> THEN TRUE
  ELSE IF b = <<>> THEN FALSE
  ELSE IF CharCode(Head(a)) < CharCode(Head(b)) THEN TRUE
  ELSE IF CharCode(Head(a)) > CharCode(Head(b)) THEN FALSE
  ELSE TextLeq(Tail(a), Tail(b))


\* ------------------------------------------------------------ enumerations
JobTypes == {"full-time", "part-time", "contract", "internship", "freelance"}
ExperienceLevels == {"entry", "junior", "mid", "senior", "lead", "executive"}
RemoteOptions == {"on-site", "remote", "hybrid"}
Sources == {"linkedin", "indeed", "glassdoor", "manual", "api"}
Statuses == {"active", "expired", "filled", "draft"}
Currencies == {"USD", "EUR", "GBP", "CAD", "AUD"}
Periods == {"hourly", "daily", "weekly", "monthly", "yearly"}

\* 30 * 24 * 60 * 60 * 1000 ms, in seconds
ExpiryPeriod == 30 * 24 * 60 * 60

\* ------------------------------------------------------- request bodies
\* A body gives each key as an optional value.  views and applications are
\* keys neither Joi schema knows.  The list-valued and contact keys that no
\* handler reads (requirements, responsibilities, benefits, tags,
\* applicationUrl, sourceId, contactInfo) are left out.
NoSalary == [min |-> None, max |-> None, currency |-> None, period |-> None]

EmptyBody ==
  [title |-> None, company |-> None, location |-> None, description |-> None,
   jobType |-> None, source |-> None, experienceLevel |-> None,
   remote |-> None, industry |-> None, skills |-> None, salary |-> None,
   status |-> None, postedDate |-> None, expiryDate |-> None,
   views |-> None, applications |-> None]

OptIn(o, S) == ~Has(o) \/ Val(o) \in S
OptLen(o, lo, hi) == ~Has(o) \/ (Len(Trim(Val(o))) >= lo /\ Len(Trim(Val(o))) <= hi)
OptTrim(o) == IF Has(o) THEN Some(Trim(Val(o))) ELSE None

\* the rules the creation and the update schema share (limits, enums)
FieldRulesOk(b) ==
  /\ OptLen(b.title, 3, 200)
  /\ OptLen(b.company, 2, 100)
  /\ OptLen(b.location, 2, 100)
  /\ OptLen(b.description, 10, 5000)
  /\ OptIn(b.jobType, JobTypes)
  /\ OptIn(b.source, Sources)
  /\ OptIn(b.experienceLevel, ExperienceLevels)
  /\ OptIn(b.remote, RemoteOptions)
  /\ OptLen(b.industry, 1, 100)
  /\ (Has(b.skills) =>
        /\ Len(Val(b.skills)) <= 100
        /\ \A i \in 1..Len(Val(b.skills)) : Trim(Val(b.skills)[i]) # <<>>)
  /\ (Has(b.salary) =>
        /\ (Has(Val(b.salary).min) => Val(Val(b.salary).min) >= 0)
        /\ (Has(Val(b.salary).max) => Val(Val(b.salary).max) >= 0)
        /\ OptIn(Val(b.salary).currency, Currencies)
        /\ OptIn(Val(b.salary).period, Periods))
  /\ OptIn(b.status, Statuses)

\* convert: true trims the texts; stripUnknown: true drops the unknown keys
Converted(b) ==
  [b EXCEPT !.title = OptTrim(@), !.company = OptTrim(@),
            !.location = OptTrim(@), !.description = OptTrim(@),
            !.industry = OptTrim(@),
            !.skills = IF Has(@)
                       THEN Some([i \in 1..Len(Val(@)) |-> Trim(Val(@)[i])])
                       ELSE None]

\* a validation that lets the unknown keys through
StripNothing(b) == b

StripUnknown(b) == [b EXCEPT !.views = None, !.applications = None]

WithDefault(o, d) == IF Has(o) THEN o ELSE Some(d)

\* jobSchema.validate(req.body, {stripUnknown: true}): [error, value]
jobSchemaValidate(b, clock) ==
  LET ok == /\ Has(b.title) /\ Has(b.company) /\ Has(b.location)
            /\ Has(b.description) /\ Has(b.jobType) /\ Has(b.source)
            /\ FieldRulesOk(b)
      v == StripUnknown(Converted(b))
  IN  [error |-> ~ok,
       value |-> [v EXCEPT !.remote = WithDefault(@, "on-site"),
                           !.status = WithDefault(@, "active"),
                           !.postedDate = WithDefault(@, clock),
                           !.salary = IF Has(@)
                                      THEN Some([Val(@) EXCEPT
                                             !.currency = WithDefault(@, "USD"),
                                             !.period = WithDefault(@, "yearly")])
                                      ELSE None]]

\* jobUpdateSchema.validate(req.body, {stripUnknown: true}): no key is
\* required and no default is filled in
jobUpdateSchemaValidate(b) ==
  [error |-> ~FieldRulesOk(b), value |-> StripUnknown(Converted(b))]

\* --------------------------------------------------------- the document
\* new Job(body): the schema's paths with their defaults
NewJob(b, clock) ==
  [title |-> Trim(Val(b.title)), company |-> Trim(Val(b.company)),
   location |-> Trim(Val(b.location)), description |-> Trim(Val(b.description)),
   jobType |-> Val(b.jobType), source |-> Val(b.source),
   experienceLevel |-> b.experienceLevel,
   remote |-> Val(WithDefault(b.remote, "on-site")),
   industry |-> OptTrim(b.industry),
   skills |-> IF Has(b.skills) THEN Val(b.skills) ELSE <<>>,
   salary |-> IF Has(b.salary)
              THEN [Val(b.salary) EXCEPT !.currency = WithDefault(@, "USD"),
                                         !.period = WithDefault(@, "yearly")]
              ELSE [NoSalary EXCEPT !.currency = Some("USD"),
                                    !.period = Some("yearly")],
   status |-> Val(WithDefault(b.status, "active")),
   postedDate |-> Val(WithDefault(b.postedDate, clock)),
   expiryDate |-> b.expiryDate,
   views |-> Val(WithDefault(b.views, 0)),
   applications |-> Val(WithDefault(b.applications, 0))]

\* a save hook that computes the expiry date whether one was given or not
PreSaveAlways(job) ==
  [job EXCEPT !.expiryDate = Some(job.postedDate + ExpiryPeriod)]

\* jobSchema.pre('save')
PreSave(job) ==
  IF ~Has(job.expiryDate)
  THEN [job EXCEPT !.expiryDate = Some(job.postedDate + ExpiryPeriod)]
  ELSE job

\* $set of every key an update carries
SetKey(old, o) == IF Has(o) THEN Val(o) ELSE old

SetKeys(job, b) ==
  [title |-> SetKey(job.title, b.title),
   company |-> SetKey(job.company, b.company),
   location |-> SetKey(job.location, b.location),
   description |-> SetKey(job.description, b.description),
   jobType |-> SetKey(job.jobType, b.jobType),
   source |-> SetKey(job.source, b.source),
   experienceLevel |-> IF Has(b.experienceLevel) THEN b.experienceLevel
                       ELSE job.experienceLevel,
   remote |-> SetKey(job.remote, b.remote),
   industry |-> IF Has(b.industry) THEN b.industry ELSE job.industry,
   skills |-> SetKey(job.skills, b.skills),
   salary |-> SetKey(job.salary, b.salary),
   status |-> SetKey(job.status, b.status),
   postedDate |-> SetKey(job.postedDate, b.postedDate),
   expiryDate |-> IF Has(b.expiryDate) THEN b.expiryDate ELSE job.expiryDate,
   views |-> SetKey(job.views, b.views),
   applications |-> SetKey(job.applications, b.applications)]

\* an update that runs the save hook again when the posting date moves
ApplyUpdateRecomputing(job, b) ==
  [SetKeys(job, b) EXCEPT
     !.expiryDate = IF Has(b.expiryDate) THEN b.expiryDate
                    ELSE IF Has(b.postedDate)
                         THEN Some(Val(b.postedDate) + ExpiryPeriod)
                         ELSE @]

\* findByIdAndUpdate(id, body): the keys are set; no save middleware runs
\* and no default is applied
ApplyUpdate(job, b) == SetKeys(job, b)

\* { $inc: { views: 1 } } on one document: an atomic increment in the store
IncViews(job) == [job EXCEPT !.views = @ + 1]


\* ------------------------------------------------------------ JavaScript
\* truthiness of an optional text: undefined and "" are falsy
Truthy(o) == Has(o) /\ Val(o) # <<>>
\* truthiness of an optional enumeration word ("" is the empty text)
TruthyWord(o) == Has(o) /\ Val(o) # ""

\* Math.ceil(a / b) for a >= 0, b > 0
CeilDiv(a, b) == (a + b - 1) \div b

\* text.split(' ') without the empty pieces: the words of a text
RECURSIVE Words(_, _)
Words(s, cur) ==
  IF s = <<>> THEN (IF cur = <<>> THEN {} ELSE {cur})
  ELSE IF Head(s) = " "
       THEN (IF cur = <<>> THEN {} ELSE {cur}) \cup Words(Tail(s), <<>>)
       ELSE Words(Tail(s), Append(cur, Lower(Head(s))))

\* skills.split(',').map(skill => skill.trim())
RECURSIVE SplitComma(_, _)
SplitComma(s, cur) ==
  IF s = <<>> THEN <<Trim(cur)>>
  ELSE IF Head(s) = "," THEN <<Trim(cur)>> \o SplitComma(Tail(s), <<>>)
       ELSE SplitComma(Tail(s), Append(cur, Head(s)))

\* -------------------------------------------------------------- the store
\* The compiled query: every key optional.  salary is the nested object the
\* handlers build, { min: { $gte: n }, max: { $lte: n } }, with n possibly NaN.
NoFilter ==
  [status |-> None, jobType |-> None, remote |-> None,
   experienceLevel |-> None, industry |-> None, location |-> None,
   company |-> None, salary |-> None, skills |-> None, text |-> None,
   postedDate |-> None]

\* the text index of the schema: title, description, company, skills
RECURSIVE SkillWords(_)
SkillWords(sk) ==
  IF sk = <<>> THEN {} ELSE Words(Head(sk), <<>>) \cup SkillWords(Tail(sk))

\* $meta: 'textScore' with the index's default weights: one point for each
\* indexed field that holds a word of the search text
FieldHit(words, terms) == IF words \cap terms # {} THEN 1 ELSE 0

TextScore(job, search) ==
  LET terms == Words(search, <<>>)
  IN  FieldHit(Words(job.title, <<>>), terms)
      + FieldHit(Words(job.description, <<>>), terms)
      + FieldHit(Words(job.company, <<>>), terms)
      + FieldHit(SkillWords(job.skills), terms)

\* { $text: { $search: text } }: some word of the text is in an indexed field
TextMatch(job, search) == TextScore(job, search) > 0

\* A query value that is an object whose first key is no operator is compared
\* with the stored sub-document as a whole: equal keys, equal values.  The
\* stored salary holds numbers and words; the object built by the handlers
\* holds operator objects such as { $gte: n } under min and max.
BsonType(v) == IF v \in Int THEN "number" ELSE "object"

SalaryKeys(sal) == {k \in {"min", "max", "currency", "period"} : Has(sal[k])}

EmbeddedEquals(stored, literal) ==
  /\ SalaryKeys(stored) = {k \in {"min", "max"} : Has(literal[k])}
  /\ \A k \in {"min", "max"} :
       Has(literal[k]) =>
         /\ BsonType(Val(stored[k])) = "object"
         /\ Val(stored[k]) = Val(literal[k])

\* a Date that is Invalid Date (here <<>>) is written to the store as time 0
BsonDate(d) == IF Has(d) THEN Val(d) ELSE 0

DateInRange(posted, range) ==
  /\ (Has(range.gte) => posted >= BsonDate(Val(range.gte)))
  /\ (Has(range.lte) => posted <= BsonDate(Val(range.lte)))

\* the store's evaluation of a compiled query on one document
Matches(job, f) ==
  /\ (Has(f.status) => job.status = Val(f.status))
  /\ (Has(f.jobType) => job.jobType = Val(f.jobType))
  /\ (Has(f.remote) => job.remote = Val(f.remote))
  /\ (Has(f.experienceLevel) => job.experienceLevel = f.experienceLevel)
  /\ (Has(f.industry) =>
        Has(job.industry) /\ RegexTest(Val(f.industry), Val(job.industry)))
  /\ (Has(f.location) => RegexTest(Val(f.location), job.location))
  /\ (Has(f.company) => RegexTest(Val(f.company), job.company))
  /\ (Has(f.salary) => EmbeddedEquals(job.salary, Val(f.salary)))
  /\ (Has(f.skills) =>
        \E i \in 1..Len(job.skills) : job.skills[i] \in SeqToSetOf(Val(f.skills)))
  /\ (Has(f.text) => TextMatch(job, Val(f.text)))
  /\ (Has(f.postedDate) => DateInRange(job.postedDate, Val(f.postedDate)))

MatchingIds(st, f) == {id \in DOMAIN st : Matches(st[id], f)}

\* countDocuments(filter)
CountDocuments(st, f) == Cardinality(MatchingIds(st, f))

\* a document as a query returns it: the stored fields and its _id
Snapshot(st, id) == [_id |-> id, doc |-> st[id]]

\* The sort object: <<>> (no key) or <<[key, dir]>>.  A missing value sorts
\* as null, below every number.
NullRank(o) == IF Has(o) THEN Val(o) ELSE -1

KeyLeq(a, b, key, search) ==
  CASE key = "postedDate" -> a.postedDate <= b.postedDate
    [] key = "company" -> TextLeq(a.company, b.company)
    [] key = "location" -> TextLeq(a.location, b.location)
    [] key = "salary.max" -> NullRank(a.salary.max) <= NullRank(b.salary.max)
    [] key = "score" -> TextScore(a, search) <= TextScore(b, search)
    [] OTHER -> TRUE

InOrder(a, b, sortObj, search) ==
  IF Val(sortObj).dir = 1
  THEN KeyLeq(a, b, Val(sortObj).key, search)
  ELSE KeyLeq(b, a, Val(sortObj).key, search)

\* every order of the matching documents the sort allows: documents with
\* equal keys come in whatever order the store produces
SortedOrders(st, ids, sortObj, search) ==
  {o \in [1..Cardinality(ids) -> ids] :
     /\ \A i, j \in 1..Cardinality(ids) : i # j => o[i] # o[j]
     /\ \A i, j \in 1..Cardinality(ids) :
          i < j => InOrder(st[o[i]], st[o[j]], sortObj, search)}

\* .skip(skip).limit(limit) of an ordered result
PageOf(st, order, skip, limit) ==
  LET last == Min2(Len(order), skip + limit)
  IN  [i \in 1..(IF last > skip THEN last - skip ELSE 0) |->
         Snapshot(st, order[skip + i])]


\* ------------------------------------------------------------- the state
VARIABLES
  store,    \* the Job collection: _id -> document
  nextId,   \* the next _id the store assigns
  now,      \* Date.now()
  storeUp,  \* whether the store answers; an operation on it throws if not
  proc,     \* per client: the running handler's position and locals
  resp      \* the response the last step sent, if it sent one

vars == <<store, nextId, now, storeUp, proc, resp>>

NoReq == [op |-> "none"]
NoResp ==
  [client |-> 0, req |-> NoReq, code |-> 0, data |-> <<>>, pagination |-> None]
Idle == [pc |-> "idle", req |-> NoReq, jobs |-> <<>>, total |-> 0]

\* res.status(code).json(...): the handler ends
Respond(p, req, code, data, pagination) ==
  /\ proc' = [proc EXCEPT ![p] = Idle]
  /\ resp' = [client |-> p, req |-> req, code |-> code, data |-> data,
              pagination |-> pagination]

\* the handler goes on to its next await
Goto(p, pc, req, jobs, total) ==
  /\ proc' = [proc EXCEPT ![p] =
                [pc |-> pc, req |-> req, jobs |-> jobs, total |-> total]]
  /\ resp' = NoResp

\* updateMany({ _id: { $in: jobIds } }, { $inc: { views: 1 } })
IdsOf(jobs) == {jobs[i]._id : i \in 1..Len(jobs)}

\* an increment written back from the document the query fetched
SnapshotOf(jobs, id) == (CHOOSE i \in 1..Len(jobs) : jobs[i]._id = id)

UpdateManySetViews(st, jobs) ==
  [id \in DOMAIN st |->
     IF id \in IdsOf(jobs)
     THEN [st[id] EXCEPT !.views = jobs[SnapshotOf(jobs, id)].doc.views + 1]
     ELSE st[id]]

UpdateManyIncViews(st, jobs) ==
  [id \in DOMAIN st |-> IF id \in IdsOf(jobs) THEN IncViews(st[id]) ELSE st[id]]

\* the reads bump views; each read in flight may still add one
ReadsInFlight == Cardinality({q \in Clients : proc[q].pc # "idle"})
RoomForRead == \A id \in DOMAIN store : store[id].views + ReadsInFlight < MaxViews

\* --------------------------------------------------- routes/jobs.js: list
ListDefaultLimit == 20

ListFilter(query) ==
  [NoFilter EXCEPT
     !.status = IF Has(query.status) THEN query.status ELSE Some("active"),
     !.jobType = IF TruthyWord(query.jobType) THEN query.jobType ELSE None,
     !.remote = IF TruthyWord(query.remote) THEN query.remote ELSE None,
     !.experienceLevel =
        IF TruthyWord(query.experienceLevel) THEN query.experienceLevel ELSE None,
     !.industry = IF Truthy(query.industry) THEN query.industry ELSE None,
     !.location = IF Truthy(query.location) THEN query.location ELSE None,
     !.company = IF Truthy(query.company) THEN query.company ELSE None,
     !.salary =
        IF Truthy(query.minSalary) \/ Truthy(query.maxSalary)
        THEN Some([min |-> IF Truthy(query.minSalary)
                           THEN Some([op |-> "$gte",
                                      arg |-> ParseInt(Val(query.minSalary))])
                           ELSE None,
                   max |-> IF Truthy(query.maxSalary)
                           THEN Some([op |-> "$lte",
                                      arg |-> ParseInt(Val(query.maxSalary))])
                           ELSE None])
        ELSE None,
     !.skills = IF Truthy(query.skills)
                THEN Some(SplitComma(Val(query.skills), <<>>))
                ELSE None]

ListSort(query) ==
  Some([key |-> IF Has(query.sort) THEN Val(query.sort) ELSE "postedDate",
        dir |-> IF (IF Has(query.order) THEN Val(query.order) ELSE "desc") = "desc"
                THEN -1 ELSE 1])

\* parseInt(page), parseInt(limit) with the destructuring defaults
PageOfReq(req) == IF Has(req.page) THEN ParseInt(Val(req.page)) ELSE Some(1)
LimitOfReq(req, dflt) ==
  IF Has(req.limit) THEN ParseInt(Val(req.limit)) ELSE Some(dflt)

\* (parseInt(page) - 1) * parseInt(limit); NaN if either is
SkipOf(page, limit) ==
  IF IsNaN(page) \/ IsNaN(limit) THEN NaN
  ELSE Some((Val(page) - 1) * Val(limit))

\* find().skip(skip).limit(limit): the store rejects a skip or limit that is
\* no number and a negative skip; limit 0 is no limit, a negative limit
\* counts as its absolute value
FindRejects(skip, limit) == IsNaN(skip) \/ IsNaN(limit) \/ Val(skip) < 0

FindLimit(limit, n) ==
  IF Val(limit) = 0 THEN n
  ELSE IF Val(limit) < 0 THEN 0 - Val(limit) ELSE Val(limit)

\* The pagination object as res.json writes it: NaN and Infinity become
\* null (here <<>>).
Pagination(req, total, dflt) ==
  LET page == PageOfReq(req)
      limit == LimitOfReq(req, dflt)
      \* Math.ceil(total / limit): a number, Infinity, or NaN
      pages == IF IsNaN(limit) THEN [kind |-> "nan", n |-> 0]
               ELSE IF Val(limit) = 0
                    THEN (IF total = 0 THEN [kind |-> "nan", n |-> 0]
                          ELSE [kind |-> "inf", n |-> 0])
               ELSE IF Val(limit) > 0
                    THEN [kind |-> "num", n |-> CeilDiv(total, Val(limit))]
               ELSE [kind |-> "num", n |-> 0 - (total \div (0 - Val(limit)))]
      \* page as the comparison sees it: the raw text coerced by Number()
      raw == IF Has(req.page) THEN ToNumber(Val(req.page)) ELSE Some(1)
  IN  [page |-> page,
       limit |-> limit,
       total |-> total,
       totalPages |-> IF pages.kind = "num" THEN Some(pages.n) ELSE None,
       hasNext |-> /\ ~IsNaN(raw)
                   /\ \/ pages.kind = "inf"
                      \/ pages.kind = "num" /\ Val(raw) < pages.n,
       hasPrev |-> ~IsNaN(raw) /\ Val(raw) > 1]

\* const jobs = await Job.find(filter).sort(sortObj).skip(skip).limit(limit)
ListFind(p, query) ==
  LET req == [op |-> "list", query |-> query]
      f == ListFilter(query)
      limit == LimitOfReq(query, ListDefaultLimit)
      skip == SkipOf(PageOfReq(query), limit)
      ids == MatchingIds(store, f)
  IN  /\ proc[p].pc = "idle"
      /\ RoomForRead
      /\ IF ~storeUp \/ FindRejects(skip, limit)
         THEN Respond(p, req, 500, <<>>, None)
         ELSE \E order \in SortedOrders(store, ids, ListSort(query), <<>>) :
                Goto(p, "listCount", req,
                     PageOf(store, order, Val(skip),
                            FindLimit(limit, Cardinality(ids))), 0)
      /\ UNCHANGED <<store, nextId, now, storeUp>>

\* const total = await Job.countDocuments(filter)
ListCount(p) ==
  /\ proc[p].pc = "listCount"
  /\ IF ~storeUp
     THEN Respond(p, proc[p].req, 500, <<>>, None)
     ELSE Goto(p, "listInc", proc[p].req, proc[p].jobs,
               CountDocuments(store, ListFilter(proc[p].req.query)))
  /\ UNCHANGED <<store, nextId, now, storeUp>>

\* await Job.updateMany(...); res.json({ success, data, pagination })
ListRespond(p) ==
  /\ proc[p].pc = "listInc"
  /\ IF ~storeUp
     THEN /\ Respond(p, proc[p].req, 500, <<>>, None)
          /\ UNCHANGED store
     ELSE /\ store' = UpdateManyIncViews(store, proc[p].jobs)
          /\ Respond(p, proc[p].req, 200, proc[p].jobs,
                     Some(Pagination(proc[p].req.query, proc[p].total,
                                     ListDefaultLimit)))
  /\ UNCHANGED <<nextId, now, storeUp>>

\* ---------------------------------------------- routes/jobs.js: by id
\* const job = await Job.findById(req.params.id)
GetFind(p, id) ==
  LET req == [op |-> "get", id |-> id]
  IN  /\ proc[p].pc = "idle"
      /\ RoomForRead
      /\ IF ~storeUp THEN Respond(p, req, 500, <<>>, None)
         ELSE IF id \notin DOMAIN store THEN Respond(p, req, 404, <<>>, None)
         ELSE Goto(p, "getInc", req, <<Snapshot(store, id)>>, 0)
      /\ UNCHANGED <<store, nextId, now, storeUp>>

\* await Job.findByIdAndUpdate(id, { $inc: { views: 1 } }); res.json(...)
GetRespond(p) ==
  /\ proc[p].pc = "getInc"
  /\ IF ~storeUp
     THEN /\ Respond(p, proc[p].req, 500, <<>>, None)
          /\ UNCHANGED store
     ELSE /\ store' = UpdateManyIncViews(store, proc[p].jobs)
          /\ Respond(p, proc[p].req, 200, proc[p].jobs, None)
  /\ UNCHANGED <<nextId, now, storeUp>>

\* POST /: validateJob, new Job(req.body), job.save()
Create(p, body) ==
  LET req == [op |-> "create", body |-> body]
      v == jobSchemaValidate(body, now)
  IN  /\ proc[p].pc = "idle"
      /\ nextId <= MaxJobs
      /\ IF v.error
         THEN /\ Respond(p, req, 400, <<>>, None)
              /\ UNCHANGED <<store, nextId>>
         ELSE IF ~storeUp
         THEN /\ Respond(p, req, 500, <<>>, None)
              /\ UNCHANGED <<store, nextId>>
         ELSE /\ store' = [id \in DOMAIN store \cup {nextId} |->
                             IF id = nextId THEN PreSave(NewJob(v.value, now))
                             ELSE store[id]]
              /\ nextId' = nextId + 1
              /\ Respond(p, req, 201, <<Snapshot(store', nextId)>>, None)
      /\ UNCHANGED <<now, storeUp>>

\* PUT /:id: validateJobUpdate, Job.findByIdAndUpdate(id, req.body, {new: true})
Put(p, id, body) ==
  LET req == [op |-> "put", id |-> id, body |-> body]
      v == jobUpdateSchemaValidate(body)
  IN  /\ proc[p].pc = "idle"
      /\ IF v.error
         THEN Respond(p, req, 400, <<>>, None) /\ UNCHANGED store
         ELSE IF ~storeUp
         THEN Respond(p, req, 500, <<>>, None) /\ UNCHANGED store
         ELSE IF id \notin DOMAIN store
         THEN Respond(p, req, 404, <<>>, None) /\ UNCHANGED store
         ELSE /\ store' = [store EXCEPT ![id] = ApplyUpdate(@, v.value)]
              /\ Respond(p, req, 200, <<Snapshot(store', id)>>, None)
      /\ UNCHANGED <<nextId, now, storeUp>>

\* a deletion that only marks the document
RemoveDocSoft(st, id) == [st EXCEPT ![id].status = "expired"]

\* findByIdAndDelete(id) on a stored document
RemoveDoc(st, id) == [i \in DOMAIN st \ {id} |-> st[i]]

\* DELETE /:id: Job.findByIdAndDelete(id)
Delete(p, id) ==
  LET req == [op |-> "delete", id |-> id]
  IN  /\ proc[p].pc = "idle"
      /\ IF ~storeUp
         THEN Respond(p, req, 500, <<>>, None) /\ UNCHANGED store
         ELSE IF id \notin DOMAIN store
         THEN Respond(p, req, 404, <<>>, None) /\ UNCHANGED store
         ELSE /\ store' = RemoveDoc(store, id)
              /\ Respond(p, req, 200, <<>>, None)
      /\ UNCHANGED <<nextId, now, storeUp>>

\* PATCH /:id/status: Job.findByIdAndUpdate(id, { status }, {new: true})
PatchStatus(p, id, status) ==
  LET req == [op |-> "patch", id |-> id, status |-> status]
  IN  /\ proc[p].pc = "idle"
      /\ IF status \notin Statuses
         THEN Respond(p, req, 400, <<>>, None) /\ UNCHANGED store
         ELSE IF ~storeUp
         THEN Respond(p, req, 500, <<>>, None) /\ UNCHANGED store
         ELSE IF id \notin DOMAIN store
         THEN Respond(p, req, 404, <<>>, None) /\ UNCHANGED store
         ELSE /\ store' = [store EXCEPT
                             ![id] = ApplyUpdate(@, [EmptyBody EXCEPT
                                                       !.status = Some(status)])]
              /\ Respond(p, req, 200, <<Snapshot(store', id)>>, None)
      /\ UNCHANGED <<nextId, now, storeUp>>


\* ------------------------------------------ routes/jobs.js: stats/overview
\* { $sum: '$field' } over documents
RECURSIVE SumField(_, _, _)
SumField(st, ids, field) ==
  IF ids = {} THEN 0
  ELSE LET id == CHOOSE i \in ids : TRUE
       IN  st[id][field] + SumField(st, ids \ {id}, field)

\* the first aggregation: one group over the whole collection; stats[0] is
\* undefined on an empty collection and the handler answers zeros
Overview(st) ==
  [totalJobs |-> Cardinality(DOMAIN st),
   activeJobs |-> Cardinality({id \in DOMAIN st : st[id].status = "active"}),
   totalViews |-> SumField(st, DOMAIN st, "views"),
   totalApplications |-> SumField(st, DOMAIN st, "applications")]

\* { $group: { _id: '$field', count: { $sum: 1 } } }: one { _id, count } per
\* value of the field.  The array is kept as a set: its order by count
\* plays no part in what is read from it.
GroupCount(st, ids, field) ==
  {[_id |-> k, count |-> Cardinality({i \in ids : st[i][field] = k})] :
     k \in {st[i][field] : i \in ids}}

\* { $match: { industry: { $exists: true, $ne: '' } } }, then the group; the
\* $limit of 10 leaves every group of a collection this small
TopIndustries(st) ==
  GroupCount(st, {i \in DOMAIN st : Truthy(st[i].industry)}, "industry")

\* The handler awaits its four aggregations one after the other; the locals
\* stats, jobTypeStats and remoteStats are kept in the order they are read.
\* const stats = await Job.aggregate([{ $group: { _id: null, ... } }])
StatsOverview(p) ==
  LET req == [op |-> "stats"]
  IN  /\ proc[p].pc = "idle"
      /\ IF ~storeUp THEN Respond(p, req, 500, <<>>, None)
         ELSE Goto(p, "statsJobTypes", req, <<Overview(store)>>, 0)
      /\ UNCHANGED <<store, nextId, now, storeUp>>

\* const jobTypeStats = await Job.aggregate([{ $group: { _id: '$jobType' } }])
StatsJobTypes(p) ==
  /\ proc[p].pc = "statsJobTypes"
  /\ IF ~storeUp THEN Respond(p, proc[p].req, 500, <<>>, None)
     ELSE Goto(p, "statsRemote", proc[p].req,
               Append(proc[p].jobs, GroupCount(store, DOMAIN store, "jobType")), 0)
  /\ UNCHANGED <<store, nextId, now, storeUp>>

\* const remoteStats = await Job.aggregate([{ $group: { _id: '$remote' } }])
StatsRemote(p) ==
  /\ proc[p].pc = "statsRemote"
  /\ IF ~storeUp THEN Respond(p, proc[p].req, 500, <<>>, None)
     ELSE Goto(p, "statsIndustry", proc[p].req,
               Append(proc[p].jobs, GroupCount(store, DOMAIN store, "remote")), 0)
  /\ UNCHANGED <<store, nextId, now, storeUp>>

\* const industryStats = await Job.aggregate([...]); res.json({ data: {
\* overview, jobTypes, remoteOptions, topIndustries } })
StatsRespond(p) ==
  /\ proc[p].pc = "statsIndustry"
  /\ IF ~storeUp THEN Respond(p, proc[p].req, 500, <<>>, None)
     ELSE Respond(p, proc[p].req, 200,
                  [overview |-> proc[p].jobs[1],
                   jobTypes |-> proc[p].jobs[2],
                   remoteOptions |-> proc[p].jobs[3],
                   topIndustries |-> TopIndustries(store)], None)
  /\ UNCHANGED <<store, nextId, now, storeUp>>


\* -------------------------------------------------- routes/search.js: search
SearchDefaultLimit == 20

\* The filters parameter is a JSON text.  Its parse is kept as the value the
\* text denotes: an object of optional keys, null, or no JSON at all.
\* A number is [t |-> "num", v |-> n], a text [t |-> "str", v |-> chars], an
\* array [t |-> "array", v |-> items]; a date text is [valid, time].
EmptyFilters ==
  [jobType |-> None, remote |-> None, experienceLevel |-> None,
   status |-> None, industry |-> None, location |-> None, company |-> None,
   minSalary |-> None, maxSalary |-> None, skills |-> None,
   postedAfter |-> None, postedBefore |-> None]

DefaultFiltersText == [kind |-> "object", obj |-> EmptyFilters]

\* let parsedFilters = {}; try { parsedFilters = JSON.parse(filters) } catch {}
JsonParse(filters) ==
  LET text == IF Has(filters) THEN Val(filters) ELSE DefaultFiltersText
  IN  IF text.kind = "malformed" THEN [isNull |-> FALSE, obj |-> EmptyFilters]
      ELSE IF text.kind = "null" THEN [isNull |-> TRUE, obj |-> EmptyFilters]
      ELSE [isNull |-> FALSE, obj |-> text.obj]

\* truthiness of an optional JSON number or text
TruthyJson(o) ==
  Has(o) /\ (IF Val(o).t = "num" THEN Val(o).v # 0 ELSE Val(o).v # <<>>)

\* parseInt of a JSON number or text
ParseIntJson(j) == IF j.t = "num" THEN Some(j.v) ELSE ParseInt(j.v)

\* new Date(text): the time, or Invalid Date (here <<>>)
NewDate(d) == IF d.valid THEN Some(d.time) ELSE None

\* q && q.trim()
HasSearchText(q) == Has(q) /\ Trim(Val(q)) # <<>>

\* the filters of lines 29-69, before the status is set
SearchFilters(q, pf) ==
  [NoFilter EXCEPT
     !.text = IF HasSearchText(q) THEN Some(Trim(Val(q))) ELSE None,
     !.jobType = IF TruthyWord(pf.jobType) THEN pf.jobType ELSE None,
     !.remote = IF TruthyWord(pf.remote) THEN pf.remote ELSE None,
     !.experienceLevel =
        IF TruthyWord(pf.experienceLevel) THEN pf.experienceLevel ELSE None,
     !.industry = IF Truthy(pf.industry) THEN pf.industry ELSE None,
     !.location = IF Truthy(pf.location) THEN pf.location ELSE None,
     !.company = IF Truthy(pf.company) THEN pf.company ELSE None,
     !.salary =
        IF TruthyJson(pf.minSalary) \/ TruthyJson(pf.maxSalary)
        THEN Some([min |-> IF TruthyJson(pf.minSalary)
                           THEN Some([op |-> "$gte",
                                      arg |-> ParseIntJson(Val(pf.minSalary))])
                           ELSE None,
                   max |-> IF TruthyJson(pf.maxSalary)
                           THEN Some([op |-> "$lte",
                                      arg |-> ParseIntJson(Val(pf.maxSalary))])
                           ELSE None])
        ELSE None,
     !.skills = IF Has(pf.skills) /\ Val(pf.skills).t = "array"
                THEN Some(Val(pf.skills).v)
                ELSE None,
     !.postedDate =
        IF Has(pf.postedAfter) \/ Has(pf.postedBefore)
        THEN Some([gte |-> IF Has(pf.postedAfter)
                           THEN Some(NewDate(Val(pf.postedAfter))) ELSE None,
                   lte |-> IF Has(pf.postedBefore)
                           THEN Some(NewDate(Val(pf.postedBefore))) ELSE None])
        ELSE None]

\* a search that takes the status the filters object gives
SearchQueryCallerStatus(q, pf) ==
  [SearchFilters(q, pf) EXCEPT
     !.status = IF TruthyWord(pf.status) THEN pf.status ELSE Some("active")]

\* searchQuery.status = 'active'
SearchQuery(q, pf) == [SearchFilters(q, pf) EXCEPT !.status = Some("active")]

\* the sort object: { score: textScore } with a search text and
\* sort = relevance, one key for another sort, and {} otherwise
SearchSort(q, sort) ==
  LET s == IF Has(sort) THEN Val(sort) ELSE "relevance"
  IN  IF s = "relevance"
      THEN (IF HasSearchText(q) THEN Some([key |-> "score", dir |-> -1]) ELSE None)
      ELSE CASE s = "postedDate" -> Some([key |-> "postedDate", dir |-> -1])
             [] s = "salary" -> Some([key |-> "salary.max", dir |-> -1])
             [] s = "company" -> Some([key |-> "company", dir |-> 1])
             [] s = "location" -> Some([key |-> "location", dir |-> 1])
             [] OTHER -> Some([key |-> "postedDate", dir |-> -1])

\* Job.aggregate([$match, $sort, $skip, $limit]): the store rejects a $sort
\* without a key, a $skip that is negative or no number, and a $limit that
\* is not a positive number
AggregateRejects(sortObj, skip, limit) ==
  \/ ~Has(sortObj)
  \/ IsNaN(skip) \/ IsNaN(limit)
  \/ Val(skip) < 0
  \/ Val(limit) <= 0

\* Job.countDocuments(searchQuery) casts the query to the schema first: an
\* Invalid Date under postedDate is a CastError
CastRejects(f) ==
  /\ Has(f.postedDate)
  /\ \/ Has(Val(f.postedDate).gte) /\ ~Has(Val(Val(f.postedDate).gte))
     \/ Has(Val(f.postedDate).lte) /\ ~Has(Val(Val(f.postedDate).lte))

\* const jobs = await Job.aggregate(searchPipeline)
SearchFind(p, sreq) ==
  LET req == [op |-> "search", query |-> sreq]
      parsed == JsonParse(sreq.filters)
      f == SearchQuery(sreq.q, parsed.obj)
      sortObj == SearchSort(sreq.q, sreq.sort)
      limit == LimitOfReq(sreq, SearchDefaultLimit)
      skip == SkipOf(PageOfReq(sreq), limit)
      ids == MatchingIds(store, f)
      search == IF Has(f.text) THEN Val(f.text) ELSE <<>>
  IN  /\ proc[p].pc = "idle"
      /\ RoomForRead
      /\ IF parsed.isNull \/ ~storeUp \/ AggregateRejects(sortObj, skip, limit)
         THEN Respond(p, req, 500, <<>>, None)
         ELSE \E order \in SortedOrders(store, ids, sortObj, search) :
                Goto(p, "searchCount", req,
                     PageOf(store, order, Val(skip), Val(limit)), 0)
      /\ UNCHANGED <<store, nextId, now, storeUp>>

\* const total = await Job.countDocuments(searchQuery)
SearchCount(p) ==
  LET sreq == proc[p].req.query
      f == SearchQuery(sreq.q, JsonParse(sreq.filters).obj)
  IN  /\ proc[p].pc = "searchCount"
      /\ IF ~storeUp \/ CastRejects(f)
         THEN Respond(p, proc[p].req, 500, <<>>, None)
         ELSE Goto(p, "searchInc", proc[p].req, proc[p].jobs,
                   CountDocuments(store, f))
      /\ UNCHANGED <<store, nextId, now, storeUp>>

\* await Job.updateMany(...); res.json({ success, data, pagination, searchInfo })
SearchRespond(p) ==
  /\ proc[p].pc = "searchInc"
  /\ IF ~storeUp
     THEN /\ Respond(p, proc[p].req, 500, <<>>, None)
          /\ UNCHANGED store
     ELSE /\ store' = UpdateManyIncViews(store, proc[p].jobs)
          /\ Respond(p, proc[p].req, 200, proc[p].jobs,
                     Some(Pagination(proc[p].req.query, proc[p].total,
                                     SearchDefaultLimit)))
  /\ UNCHANGED <<nextId, now, storeUp>>

\* ------------------------------------------ routes/search.js: suggestions
\* the values a document holds under a field: its text, or each of its skills
FieldValues(job, field) ==
  IF field = "skills" THEN SeqToSetOf(job.skills) ELSE {job[field]}

\* Job.distinct(field, { [field]: { $regex: query, $options: 'i' },
\* status: 'active' }): the distinct values of the field in the documents
\* that match; a document matches on an array field when one item does
Distinct(st, field, query) ==
  UNION {FieldValues(st[id], field) :
           id \in {i \in DOMAIN st :
                     /\ st[i].status = "active"
                     /\ \E v \in FieldValues(st[i], field) : RegexTest(query, v)}}

\* the switch on type: bare values for one family, { type, value } for all
SuggestionsOf(st, query, type) ==
  CASE type = "jobs" -> Distinct(st, "title", query)
    [] type = "companies" -> Distinct(st, "company", query)
    [] type = "locations" -> Distinct(st, "location", query)
    [] type = "skills" -> Distinct(st, "skills", query)
    [] OTHER ->
         {[type |-> "job", value |-> v] : v \in Distinct(st, "title", query)}
         \cup {[type |-> "company", value |-> v] :
                 v \in Distinct(st, "company", query)}
         \cup {[type |-> "location", value |-> v] :
                 v \in Distinct(st, "location", query)}
         \cup {[type |-> "skill", value |-> v] :
                 v \in Distinct(st, "skills", query)}

\* GET /suggestions.  Every query is built as Job.distinct(...).limit(n): a
\* query builder that refuses limit on a distinct query throws, which the
\* catch block answers with 500; one that accepts it runs the distinct, on
\* which the option has no effect.
Suggest(p, q, type) ==
  LET req == [op |-> "suggest", q |-> q, type |-> type]
      scope == IF Has(type) THEN Val(type) ELSE "all"
  IN  /\ proc[p].pc = "idle"
      /\ IF ~Truthy(q) \/ Len(Trim(Val(q))) < 2
         THEN Respond(p, req, 200, {}, None)
         ELSE \/ Respond(p, req, 500, <<>>, None)
              \/ /\ storeUp
                 /\ Respond(p, req, 200,
                            SuggestionsOf(store, Trim(Val(q)), scope), None)
      /\ UNCHANGED <<store, nextId, now, storeUp>>


\* ------------------------------------------------------- the environment
\* time passes
Tick ==
  /\ now < MaxClock
  /\ now' = now + 1
  /\ resp' = NoResp
  /\ UNCHANGED <<store, nextId, storeUp, proc>>

\* the store stops answering: every await on it rejects and the handler's
\* catch block answers 500
Outage ==
  /\ storeUp
  /\ storeUp' = FALSE
  /\ resp' = NoResp
  /\ UNCHANGED <<store, nextId, now, proc>>

Recover ==
  /\ ~storeUp
  /\ storeUp' = TRUE
  /\ resp' = NoResp
  /\ UNCHANGED <<store, nextId, now, proc>>


\* ------------------------------------------------------------ the inputs
Description == <<"d", "e", "s", "c", "r", "i", "p", "t", "i", "o", "n">>

\* a complete posting that also carries the counters, without dates
BodyDev ==
  [EmptyBody EXCEPT
     !.title = Some(<<"d", "e", "v">>),
     !.company = Some(<<"a", "c", "b">>),
     !.location = Some(<<" ", "a", "b">>),
     !.description = Some(Description),
     !.jobType = Some("full-time"),
     !.source = Some("manual"),
     !.industry = Some(<<"a", "b">>),
     !.skills = Some(<< <<"a", "b">>, <<"c">> >>),
     !.salary = Some([NoSalary EXCEPT !.min = Some(1), !.max = Some(2)]),
     !.views = Some(2),
     !.applications = Some(1)]

\* a draft with both dates given
BodyOps ==
  [EmptyBody EXCEPT
     !.title = Some(<<"o", "p", "s">>),
     !.company = Some(<<"A", "b">>),
     !.location = Some(<<"b", "a">>),
     !.description = Some(Description),
     !.jobType = Some("part-time"),
     !.source = Some("api"),
     !.remote = Some("remote"),
     !.experienceLevel = Some("senior"),
     !.status = Some("draft"),
     !.postedDate = Some(0),
     !.expiryDate = Some(5)]

\* a posting without its required keys
BodyBad == [EmptyBody EXCEPT !.title = Some(<<"d", "e", "v">>)]

\* an active posting with a posting date and no expiry date
BodyWeb ==
  [EmptyBody EXCEPT
     !.title = Some(<<"w", "e", "b", " ", "D", "e", "v">>),
     !.company = Some(<<"a", "a", "b">>),
     !.location = Some(<<"b", "c">>),
     !.description = Some(Description),
     !.jobType = Some("full-time"),
     !.source = Some("linkedin"),
     !.remote = Some("hybrid"),
     !.skills = Some(<< <<"c">> >>),
     !.salary = Some([NoSalary EXCEPT !.min = Some(0), !.max = Some(5)]),
     !.postedDate = Some(1)]

ValidBodies == {BodyDev, BodyOps, BodyWeb}
CreateBodies == {BodyDev, BodyOps, BodyWeb, BodyBad}

\* an update that moves the posting date and carries the counters
UpdateCounters ==
  [EmptyBody EXCEPT !.postedDate = Some(1), !.views = Some(2),
                    !.applications = Some(2)]
\* an update that gives a new expiry date
UpdateExpiry == [EmptyBody EXCEPT !.expiryDate = Some(7), !.status = Some("active")]
\* an update the schema rejects
UpdateBad == [EmptyBody EXCEPT !.jobType = Some("bogus")]

UpdateBodies == {UpdateCounters, UpdateExpiry, UpdateBad}

PatchStatuses == {"draft", "archived"}

NoQuery ==
  [page |-> None, limit |-> None, sort |-> None, order |-> None,
   status |-> None, jobType |-> None, remote |-> None,
   experienceLevel |-> None, industry |-> None, location |-> None,
   minSalary |-> None, maxSalary |-> None, skills |-> None, company |-> None]

NoSearch ==
  [q |-> None, page |-> None, limit |-> None, sort |-> None, filters |-> None]

FiltersObject(obj) == Some([kind |-> "object", obj |-> obj])

SearchDev == [NoSearch EXCEPT !.q = Some(<<" ", "d", "e", "v">>)]

\* a collection as creations at time 0 leave it
StoreOf(bodies) ==
  [id \in 1..Len(bodies) |->
     PreSave(NewJob(jobSchemaValidate(bodies[id], 0).value, 0))]

InitialStores ==
  {StoreOf(bodies) : bodies \in UNION {[1..n -> ValidBodies] : n \in 1..MaxJobs}}

\* ------------------------------------------------------ the specification
\* Spec: the life cycle of the jobs under concurrent requests, from an
\* empty collection
Init ==
  /\ store = <<>>
  /\ nextId = 1
  /\ now = 0
  /\ storeUp = TRUE
  /\ proc = [p \in Clients |-> Idle]
  /\ resp = NoResp

Next ==
  \/ \E p \in Clients, body \in {BodyDev, BodyBad} : Create(p, body)
  \/ \E p \in Clients, id \in JobIds, body \in {UpdateCounters, UpdateBad} :
       Put(p, id, body)
  \/ \E p \in Clients, id \in JobIds, st \in PatchStatuses : PatchStatus(p, id, st)
  \/ \E p \in Clients, id \in JobIds : Delete(p, id)
  \/ \E p \in Clients, id \in JobIds : GetFind(p, id)
  \/ \E p \in Clients : GetRespond(p)
  \/ \E p \in Clients : ListFind(p, NoQuery)
  \/ \E p \in Clients : ListCount(p)
  \/ \E p \in Clients : ListRespond(p)
  \/ \E p \in Clients : SearchFind(p, SearchDev)
  \/ \E p \in Clients : SearchCount(p)
  \/ \E p \in Clients : SearchRespond(p)

Spec == Init /\ [][Next]_vars

\* SpecWrite: creations, updates, status changes and deletions as time passes
NextWrite ==
  \/ \E p \in Clients, body \in CreateBodies : Create(p, body)
  \/ \E p \in Clients, id \in JobIds, body \in UpdateBodies : Put(p, id, body)
  \/ \E p \in Clients, id \in JobIds, st \in PatchStatuses : PatchStatus(p, id, st)
  \/ \E p \in Clients, id \in JobIds : Delete(p, id)
  \/ Tick

SpecWrite == Init /\ [][NextWrite]_vars


\* SpecQuery: listings and searches over a collection that creations built
QueryLists ==
  { NoQuery,
    [NoQuery EXCEPT !.company = Some(<<"a", ".", "b">>)],
    [NoQuery EXCEPT !.company = Some(<<"A", "C">>), !.order = Some("asc")],
    [NoQuery EXCEPT !.minSalary = Some(<<"1">>)],
    [NoQuery EXCEPT !.minSalary = Some(<<"a", "b", "c">>)],
    [NoQuery EXCEPT !.status = Some("draft"), !.remote = Some("remote")],
    [NoQuery EXCEPT !.jobType = Some("full-time"), !.location = Some(<<"b">>),
                    !.skills = Some(<<"x", ",", " ", "c">>),
                    !.sort = Some("company"),
                    !.page = Some(<<"2">>), !.limit = Some(<<"1">>)] }

QuerySearches ==
  { SearchDev,
    NoSearch,
    [NoSearch EXCEPT !.sort = Some("postedDate"),
       !.filters = FiltersObject([EmptyFilters EXCEPT !.status = Some("draft")])],
    [NoSearch EXCEPT !.sort = Some("postedDate"),
       !.filters = FiltersObject([EmptyFilters EXCEPT
                      !.postedAfter = Some([valid |-> FALSE, time |-> 0])])],
    [NoSearch EXCEPT !.sort = Some("company"), !.limit = Some(<<"1">>),
       !.filters = FiltersObject([EmptyFilters EXCEPT
                      !.skills = Some([t |-> "array", v |-> << <<"c">> >>]),
                      !.postedAfter = Some([valid |-> TRUE, time |-> 0]),
                      !.postedBefore = Some([valid |-> TRUE, time |-> 1])])],
    [NoSearch EXCEPT !.sort = Some("salary"),
       !.filters = FiltersObject([EmptyFilters EXCEPT
                      !.maxSalary = Some([t |-> "num", v |-> 5])])] }

InitQuery ==
  /\ store \in InitialStores
  /\ nextId = Cardinality(DOMAIN store) + 1
  /\ now = 1
  /\ storeUp = TRUE
  /\ proc = [p \in Clients |-> Idle]
  /\ resp = NoResp

NextQuery ==
  \/ \E p \in Clients, query \in QueryLists : ListFind(p, query)
  \/ \E p \in Clients : ListCount(p)
  \/ \E p \in Clients : ListRespond(p)
  \/ \E p \in Clients, sreq \in QuerySearches : SearchFind(p, sreq)
  \/ \E p \in Clients : SearchCount(p)
  \/ \E p \in Clients : SearchRespond(p)

SpecQuery == InitQuery /\ [][NextQuery]_vars

\* SpecOutage: reads over a built collection while the store comes and goes
NextOutage ==
  \/ \E p \in Clients, id \in JobIds : GetFind(p, id)
  \/ \E p \in Clients : GetRespond(p)
  \/ \E p \in Clients : ListFind(p, NoQuery)
  \/ \E p \in Clients : ListCount(p)
  \/ \E p \in Clients : ListRespond(p)
  \/ \E p \in Clients : SearchFind(p, SearchDev)
  \/ \E p \in Clients : SearchCount(p)
  \/ \E p \in Clients : SearchRespond(p)
  \/ Outage
  \/ Recover

SpecOutage == InitQuery /\ [][NextOutage]_vars

\* SpecReads: every client has a read in flight that fetched job 1 before
\* any of them incremented; the reads then run to their end in any order
ReadsInFlightOn(st) ==
  {[pc |-> "getInc", req |-> [op |-> "get", id |-> 1],
    jobs |-> <<Snapshot(st, 1)>>, total |-> 0]}
  \cup
  {[pc |-> "listCount", req |-> [op |-> "list", query |-> NoQuery],
    jobs |-> PageOf(st, o, 0, ListDefaultLimit), total |-> 0] :
     o \in SortedOrders(st, MatchingIds(st, ListFilter(NoQuery)),
                        ListSort(NoQuery), <<>>)}
  \cup
  {[pc |-> "searchCount", req |-> [op |-> "search", query |-> SearchDev],
    jobs |-> PageOf(st, o, 0, SearchDefaultLimit), total |-> 0] :
     o \in SortedOrders(st, MatchingIds(st, SearchQuery(SearchDev.q, EmptyFilters)),
                        SearchSort(SearchDev.q, SearchDev.sort),
                        Trim(Val(SearchDev.q)))}

InitReads ==
  /\ store \in InitialStores
  /\ nextId = Cardinality(DOMAIN store) + 1
  /\ now = 1
  /\ storeUp = TRUE
  /\ proc \in [Clients -> {r \in ReadsInFlightOn(store) : 1 \in IdsOf(r.jobs)}]
  /\ resp = NoResp

NextReads ==
  \/ \E p \in Clients : GetRespond(p)
  \/ \E p \in Clients : ListCount(p)
  \/ \E p \in Clients : ListRespond(p)
  \/ \E p \in Clients : SearchCount(p)
  \/ \E p \in Clients : SearchRespond(p)

SpecReads == InitReads /\ [][NextReads]_vars

\* SpecInput: listings and searches whose filters text, page or limit are
\* not what the handlers expect, over a collection that creations built
ByDate == [NoSearch EXCEPT !.sort = Some("postedDate")]

InputLists ==
  { [NoQuery EXCEPT !.page = Some(<<"0">>)],
    [NoQuery EXCEPT !.page = Some(<<"a", "b", "c">>)],
    [NoQuery EXCEPT !.limit = Some(<<"0">>)],
    [NoQuery EXCEPT !.limit = Some(<<"-", "1">>)],
    [NoQuery EXCEPT !.page = Some(<<"2">>), !.limit = Some(<<"1">>)] }

InputSearches ==
  { [ByDate EXCEPT !.filters = Some([kind |-> "malformed"])],
    [ByDate EXCEPT !.filters = Some([kind |-> "null"])],
    [ByDate EXCEPT !.page = Some(<<"0">>)],
    [ByDate EXCEPT !.limit = Some(<<"a", "b", "c">>)],
    [ByDate EXCEPT !.limit = Some(<<"0">>)],
    [NoSearch EXCEPT !.q = Some(<<" ", " ">>)],
    NoSearch }

NextInput ==
  \/ \E p \in Clients, query \in InputLists : ListFind(p, query)
  \/ \E p \in Clients : ListCount(p)
  \/ \E p \in Clients : ListRespond(p)
  \/ \E p \in Clients, sreq \in InputSearches : SearchFind(p, sreq)
  \/ \E p \in Clients : SearchCount(p)
  \/ \E p \in Clients : SearchRespond(p)

SpecInput == InitQuery /\ [][NextInput]_vars


\* SpecSuggest: suggestion requests over a collection that creations built
SuggestTexts ==
  {None, Some(<<" ", "a">>), Some(<<"a", "b">>), Some(<<"a", ".", "b">>)}

SuggestTypes ==
  {None, Some("jobs"), Some("companies"), Some("locations"), Some("skills")}

NextSuggest ==
  \E p \in Clients, q \in SuggestTexts, type \in SuggestTypes : Suggest(p, q, type)

SpecSuggest == InitQuery /\ [][NextSuggest]_vars

\* SpecRank: text searches over postings with the same text, created at
\* different times
BodyDevLater == [BodyDev EXCEPT !.postedDate = Some(1)]

RankStores ==
  {StoreOf(bodies) :
     bodies \in UNION {[1..n -> {BodyDev, BodyDevLater}] : n \in 1..MaxJobs}}

RankSearches ==
  { SearchDev,
    [SearchDev EXCEPT !.sort = Some("relevance"), !.limit = Some(<<"1">>)],
    [SearchDev EXCEPT !.sort = Some("postedDate")] }

InitRank ==
  /\ store \in RankStores
  /\ nextId = Cardinality(DOMAIN store) + 1
  /\ now = 1
  /\ storeUp = TRUE
  /\ proc = [p \in Clients |-> Idle]
  /\ resp = NoResp

NextRank ==
  \/ \E p \in Clients, sreq \in RankSearches : SearchFind(p, sreq)
  \/ \E p \in Clients : SearchCount(p)
  \/ \E p \in Clients : SearchRespond(p)

SpecRank == InitRank /\ [][NextRank]_vars

\* SpecStats: statistics requests while postings are created and deleted
NextStats ==
  \/ \E p \in Clients, body \in {BodyDev, BodyOps} : Create(p, body)
  \/ \E p \in Clients, id \in JobIds : Delete(p, id)
  \/ \E p \in Clients : StatsOverview(p)
  \/ \E p \in Clients : StatsJobTypes(p)
  \/ \E p \in Clients : StatsRemote(p)
  \/ \E p \in Clients : StatsRespond(p)

SpecStats == Init /\ [][NextStats]_vars

\* ------------------------------------------------------------ properties
IncPcs == {"listInc", "searchInc", "getInc"}

\* the step is the increment of a read that returned id
IsReadIncrement(id) ==
  \E p \in Clients :
    /\ proc[p].pc \in IncPcs
    /\ proc'[p].pc = "idle"
    /\ id \in IdsOf(proc[p].jobs)

\* C4: in every step, a job that is created starts with views = 0 and
\* applications = 0, whatever its creation payload carries; the views of a
\* stored job never go down and change only by +1 in the increment step of a
\* read that returned it; applications never change: no PUT or PATCH sets
\* either counter.
C4_CountersOnlyByReads ==
  [][\A id \in DOMAIN store' :
       IF id \in DOMAIN store
       THEN /\ store'[id].views >= store[id].views
            /\ store'[id].applications = store[id].applications
            /\ (store'[id].views # store[id].views =>
                  /\ store'[id].views = store[id].views + 1
                  /\ IsReadIncrement(id))
       ELSE store'[id].views = 0 /\ store'[id].applications = 0]_vars

\* a PUT carrying views = 2 answered 200 on a job whose views stay 1
C4_Witness ==
  /\ resp.req.op = "put"
  /\ resp.code = 200
  /\ resp.req.body.views = Some(2)
  /\ resp.data[1].doc.views = 1
  /\ store[resp.req.id].views = 1

\* C6: a creation answered 201 stores expiryDate = postedDate + 30 days when
\* the payload has no expiryDate, with postedDate the payload's or else the
\* creation time, and stores the payload's expiryDate unchanged otherwise.
C6_ExpiryDefault ==
  (resp.req.op = "create" /\ resp.code = 201) =>
    LET body == resp.req.body
        id == resp.data[1]._id
        doc == store[id]
    IN  /\ resp.data[1].doc = doc
        /\ doc.postedDate = (IF Has(body.postedDate) THEN Val(body.postedDate)
                             ELSE now)
        /\ doc.expiryDate = (IF Has(body.expiryDate) THEN body.expiryDate
                             ELSE Some(doc.postedDate + 2592000))

\* a creation without either date, at a time after 0
C6_Witness ==
  /\ resp.req.op = "create"
  /\ resp.code = 201
  /\ ~Has(resp.req.body.expiryDate)
  /\ ~Has(resp.req.body.postedDate)
  /\ now = 1
  /\ store[resp.data[1]._id].expiryDate = Some(2592001)

\* C7: in every step, the expiryDate of a stored job changes only in a PUT
\* on that job whose payload carries an expiryDate, and then to that value;
\* a PUT without one, also one that moves postedDate, and a PATCH leave it.
C7_ExpiryKeptOnUpdate ==
  [][\A id \in DOMAIN store \cap DOMAIN store' :
       store'[id].expiryDate # store[id].expiryDate =>
         /\ resp'.req.op = "put"
         /\ resp'.req.id = id
         /\ Has(resp'.req.body.expiryDate)
         /\ store'[id].expiryDate = resp'.req.body.expiryDate]_vars

\* a PUT moved postedDate from 0 to 1 and the expiry date is still that of 0
C7_Witness ==
  /\ resp.req.op = "put"
  /\ resp.code = 200
  /\ resp.req.body.postedDate = Some(1)
  /\ ~Has(resp.req.body.expiryDate)
  /\ store[resp.req.id].postedDate = 1
  /\ store[resp.req.id].expiryDate = Some(2592000)

\* the ids the store has assigned
Assigned == 1..(nextId - 1)

SpecifiedByList(doc, query) ==
  /\ (Has(query.status) => doc.status = Val(query.status))
  /\ (TruthyWord(query.jobType) => doc.jobType = Val(query.jobType))
  /\ (TruthyWord(query.remote) => doc.remote = Val(query.remote))
  /\ (TruthyWord(query.experienceLevel) =>
        doc.experienceLevel = query.experienceLevel)
  /\ (Truthy(query.industry) =>
        Has(doc.industry) /\ Contains(Val(doc.industry), Val(query.industry)))
  /\ (Truthy(query.location) => Contains(doc.location, Val(query.location)))
  /\ (Truthy(query.company) => Contains(doc.company, Val(query.company)))
  /\ (Truthy(query.minSalary) /\ ~IsNaN(ParseInt(Val(query.minSalary))) =>
        /\ Has(doc.salary.min)
        /\ Val(doc.salary.min) >= Val(ParseInt(Val(query.minSalary))))
  /\ (Truthy(query.maxSalary) /\ ~IsNaN(ParseInt(Val(query.maxSalary))) =>
        /\ Has(doc.salary.max)
        /\ Val(doc.salary.max) <= Val(ParseInt(Val(query.maxSalary))))
  /\ (Truthy(query.skills) =>
        \E i \in 1..Len(doc.skills) :
          doc.skills[i] \in SeqToSetOf(SplitComma(Val(query.skills), <<>>)))

\* the filters of a search's filters object other than status
SpecifiedBySearch(doc, pf) ==
  /\ (TruthyWord(pf.jobType) => doc.jobType = Val(pf.jobType))
  /\ (TruthyWord(pf.remote) => doc.remote = Val(pf.remote))
  /\ (TruthyWord(pf.experienceLevel) => doc.experienceLevel = pf.experienceLevel)
  /\ (Truthy(pf.industry) =>
        Has(doc.industry) /\ Contains(Val(doc.industry), Val(pf.industry)))
  /\ (Truthy(pf.location) => Contains(doc.location, Val(pf.location)))
  /\ (Truthy(pf.company) => Contains(doc.company, Val(pf.company)))
  /\ (TruthyJson(pf.minSalary) /\ ~IsNaN(ParseIntJson(Val(pf.minSalary))) =>
        /\ Has(doc.salary.min)
        /\ Val(doc.salary.min) >= Val(ParseIntJson(Val(pf.minSalary))))
  /\ (TruthyJson(pf.maxSalary) /\ ~IsNaN(ParseIntJson(Val(pf.maxSalary))) =>
        /\ Has(doc.salary.max)
        /\ Val(doc.salary.max) <= Val(ParseIntJson(Val(pf.maxSalary))))
  /\ (Has(pf.skills) /\ Val(pf.skills).t = "array" =>
        \E i \in 1..Len(doc.skills) :
          doc.skills[i] \in SeqToSetOf(Val(pf.skills).v))
  /\ (Has(pf.postedAfter) /\ Val(pf.postedAfter).valid =>
        doc.postedDate >= Val(pf.postedAfter).time)
  /\ (Has(pf.postedBefore) /\ Val(pf.postedBefore).valid =>
        doc.postedDate <= Val(pf.postedBefore).time)

IsPage == resp.code = 200 /\ resp.req.op \in {"list", "search"}

\* C1: every record of a page answered 200 satisfies every filter its
\* request specifies: equality for the enumerations, case-insensitive
\* containment for the texts, the salary bounds, a shared skill, the date
\* range, and the status the caller gave.
C1_NoFalsePositives ==
  IsPage =>
    \A i \in 1..Len(resp.data) :
      IF resp.req.op = "list"
      THEN SpecifiedByList(resp.data[i].doc, resp.req.query)
      ELSE LET pf == JsonParse(resp.req.query.filters).obj
           IN  /\ SpecifiedBySearch(resp.data[i].doc, pf)
               /\ (Has(pf.status) => resp.data[i].doc.status = Val(pf.status))

\* the predicate of a request: its filters, status active unless a listing
\* gives one, and for a search with a text a word in common
PredicateOf(doc, req) ==
  IF req.op = "list"
  THEN /\ SpecifiedByList(doc, req.query)
       /\ (~Has(req.query.status) => doc.status = "active")
  ELSE /\ SpecifiedBySearch(doc, JsonParse(req.query.filters).obj)
       /\ doc.status = "active"
       /\ (HasSearchText(req.query.q) => TextMatch(doc, Trim(Val(req.query.q))))

\* C2: the total of a page answered 200 is the number of stored records
\* that satisfy the request's predicate.
C2_TotalCountsAllMatches ==
  IsPage =>
    Val(resp.pagination).total =
      Cardinality({id \in DOMAIN store : PredicateOf(store[id], resp.req)})

\* C3: the step that runs the increment of a read whose queries succeeded
\* always answers 200 with the records the query fetched.
C3_IncrementFailureTolerated ==
  [][\A p \in Clients :
       (proc[p].pc \in IncPcs /\ proc'[p].pc = "idle") =>
         /\ resp'.code = 200
         /\ resp'.data = proc[p].jobs]_vars

\* the reads in flight that fetched id and have not incremented yet
PendingOn(id) ==
  Cardinality({p \in Clients : proc[p].pc # "idle" /\ id \in IdsOf(proc[p].jobs)})

\* C5: with every client's read having fetched job 1 before any increment,
\* the views of job 1 plus the reads still to increment is the views before
\* plus the number of reads, in every order of their steps: when all have
\* ended, two reads have raised views by exactly 2.
C5_NoLostIncrement == store[1].views + PendingOn(1) = 0 + Cardinality(Clients)

\* both reads have ended and job 1 went from 0 to 2 views
C5_Witness ==
  /\ \A p \in Clients : proc[p].pc = "idle"
  /\ resp.code = 200
  /\ store[1].views = 2

\* C9: every record of a search answered 200 is active, whatever status the
\* filters object gives; every record of a listing answered 200 has the
\* status the caller gave, or active when the caller gave none.
C9_StatusFloor ==
  IsPage =>
    \A i \in 1..Len(resp.data) :
      resp.data[i].doc.status =
        (IF resp.req.op = "list" /\ Has(resp.req.query.status)
         THEN Val(resp.req.query.status) ELSE "active")

\* a search whose filters ask for drafts returned an active record
C9_Witness ==
  /\ IsPage
  /\ resp.req.op = "search"
  /\ JsonParse(resp.req.query.filters).obj.status = Some("draft")
  /\ Len(resp.data) > 0
  /\ resp.data[1].doc.status = "active"

\* a listing that asks for drafts returned a draft
C9_ListWitness ==
  /\ IsPage
  /\ resp.req.op = "list"
  /\ resp.req.query.status = Some("draft")
  /\ Len(resp.data) > 0

\* the request without its malformed parameters
MalformedNumber(o) == Truthy(o) /\ IsNaN(ParseInt(Val(o)))
MalformedDate(o) == Has(o) /\ ~Val(o).valid

HasMalformed(req) ==
  IF req.op = "list"
  THEN MalformedNumber(req.query.minSalary) \/ MalformedNumber(req.query.maxSalary)
  ELSE req.op = "search" /\
       LET pf == JsonParse(req.query.filters).obj
       IN  MalformedDate(pf.postedAfter) \/ MalformedDate(pf.postedBefore)

\* C10: a listing or search that carries a malformed number or date is
\* answered 200, with the total of the records that satisfy its other
\* parameters and only such records in its page.
C10_MalformedIsAbsent ==
  (resp.req.op \in {"list", "search"} /\ HasMalformed(resp.req)) =>
    /\ resp.code = 200
    /\ Val(resp.pagination).total =
         Cardinality({id \in DOMAIN store : PredicateOf(store[id], resp.req)})

\* the search's sort object has a key: a text with sort = relevance, or
\* another sort
SortHasKey(sreq) == Has(SearchSort(sreq.q, sreq.sort))

\* the request leaves page and limit to their defaults
DefaultPaging(query) == ~Has(query.page) /\ ~Has(query.limit)

\* the filters parameter is given and is no JSON object
FiltersNoObject(sreq) == Has(sreq.filters) /\ Val(sreq.filters).kind # "object"

\* C11: a search whose filters parameter is no JSON object (unparseable, or
\* JSON null), and that is otherwise well formed, is answered 200 with the
\* total of the search without filters.
C11_MalformedFiltersTolerated ==
  (/\ resp.req.op = "search"
   /\ FiltersNoObject(resp.req.query)
   /\ SortHasKey(resp.req.query)
   /\ DefaultPaging(resp.req.query)) =>
    /\ resp.code = 200
    /\ Val(resp.pagination).total =
         Cardinality({id \in DOMAIN store : PredicateOf(store[id], resp.req)})

\* the field a suggestion of the response was read from, with its value
SuggestedField(scope) ==
  CASE scope \in {"jobs", "job"} -> "title"
    [] scope \in {"companies", "company"} -> "company"
    [] scope \in {"locations", "location"} -> "location"
    [] OTHER -> "skills"

Suggested ==
  IF Has(resp.req.type)
  THEN {[field |-> SuggestedField(Val(resp.req.type)), value |-> v] :
          v \in resp.data}
  ELSE {[field |-> SuggestedField(s.type), value |-> s.value] : s \in resp.data}

ByRelevance(sreq) == ~Has(sreq.sort) \/ sreq.sort = Some("relevance")

\* C13: the page of a search with a text and sort = relevance is in
\* descending order of score, and records of equal score are in descending
\* order of postedDate.
C13_RelevanceTieBreak ==
  (/\ IsPage
   /\ resp.req.op = "search"
   /\ HasSearchText(resp.req.query.q)
   /\ ByRelevance(resp.req.query)) =>
    LET text == Trim(Val(resp.req.query.q))
    IN  \A i, j \in 1..Len(resp.data) :
          i < j =>
            LET a == resp.data[i].doc
                b == resp.data[j].doc
            IN  /\ TextScore(a, text) >= TextScore(b, text)
                /\ (TextScore(a, text) = TextScore(b, text) =>
                      a.postedDate >= b.postedDate)

\* C14: a search without a text (q absent, empty or blank), whatever its
\* sort, that is otherwise well formed is answered 200 with the total of
\* the active records its filters select, and its page is in descending
\* order of postedDate unless another sort key was asked for.
C14_NoTextSearchSucceeds ==
  (/\ resp.req.op = "search"
   /\ ~HasSearchText(resp.req.query.q)
   /\ DefaultPaging(resp.req.query)
   /\ ~FiltersNoObject(resp.req.query)
   /\ ~HasMalformed(resp.req)) =>
    /\ resp.code = 200
    /\ Val(resp.pagination).total =
         Cardinality({id \in DOMAIN store : PredicateOf(store[id], resp.req)})
    /\ (ByRelevance(resp.req.query) \/ resp.req.query.sort = Some("postedDate") =>
          \A i, j \in 1..Len(resp.data) :
            i < j => resp.data[i].doc.postedDate >= resp.data[j].doc.postedDate)

\* C15: a page answered 200 to a request without limit reports limit = 10
\* and holds at most 10 records for a listing, limit = 20 and at most 20
\* records for a search; a request without page is reported as page = 1.
C15_DefaultLimits ==
  IsPage =>
    LET p == Val(resp.pagination)
        documented == IF resp.req.op = "list" THEN 10 ELSE 20
    IN  /\ (~Has(resp.req.query.limit) =>
              /\ p.limit = Some(documented)
              /\ Len(resp.data) <= documented)
        /\ (~Has(resp.req.query.page) => p.page = Some(1))

\* a page or limit parameter that is given and is no positive number
BadNumber(o) ==
  Has(o) /\ (IsNaN(ParseInt(Val(o))) \/ Val(ParseInt(Val(o))) <= 0)

BadPaging(query) == BadNumber(query.page) \/ BadNumber(query.limit)

\* the skip and limit a handler that is past its page query gave the store
AskedOfStore(p) ==
  LET query == proc[p].req.query
      limit == LimitOfReq(query, IF proc[p].req.op = "list"
                                 THEN ListDefaultLimit ELSE SearchDefaultLimit)
  IN  [skip |-> SkipOf(PageOfReq(query), limit), limit |-> limit]

\* C16: a listing or search whose page or limit is not a positive number is
\* answered 400, or 200 with a positive page and limit in its pagination;
\* and every page query that ran was given a skip >= 0 and a limit >= 1.
C16_PagingValidated ==
  /\ (resp.req.op \in {"list", "search"} /\ BadPaging(resp.req.query)) =>
       \/ resp.code = 400
       \/ /\ resp.code = 200
          /\ Has(Val(resp.pagination).page) /\ Val(Val(resp.pagination).page) >= 1
          /\ Has(Val(resp.pagination).limit) /\ Val(Val(resp.pagination).limit) >= 1
  /\ \A p \in Clients :
       proc[p].pc \in {"listCount", "listInc", "searchCount", "searchInc"} =>
         /\ ~IsNaN(AskedOfStore(p).skip) /\ Val(AskedOfStore(p).skip) >= 0
         /\ ~IsNaN(AskedOfStore(p).limit) /\ Val(AskedOfStore(p).limit) >= 1

\* C17: a page answered 200 holds at most as many records as the total it
\* reports, and a page that is not full (fewer records than its limit) is
\* the last one: hasNext is false.  Writes of other clients may run between
\* the steps of the read.
C17_DataWithinTotal ==
  IsPage =>
    LET p == Val(resp.pagination)
    IN  /\ Len(resp.data) <= p.total
        /\ (Has(p.limit) /\ Val(p.limit) > 0 /\ Len(resp.data) < Val(p.limit) =>
              ~p.hasNext)

\* the sum of the counts of an array of { _id, count }
RECURSIVE SumCounts(_)
SumCounts(groups) ==
  IF groups = {} THEN 0
  ELSE LET g == CHOOSE x \in groups : TRUE
       IN  g.count + SumCounts(groups \ {g})

\* C18: in a statistics response answered 200, the counts per jobType sum
\* to totalJobs, the counts per remote option sum to totalJobs, and
\* activeJobs is at most totalJobs.  Creations and deletions of other
\* clients may run between the aggregations of the request.
C18_StatsSumToTotal ==
  (resp.req.op = "stats" /\ resp.code = 200) =>
    /\ SumCounts(resp.data.jobTypes) = resp.data.overview.totalJobs
    /\ SumCounts(resp.data.remoteOptions) = resp.data.overview.totalJobs
    /\ resp.data.overview.activeJobs <= resp.data.overview.totalJobs

====
